---- MODULE Spec2Model ----
(***************************************************************************)
(* Verification model of llm-prob ("Probability Pulse"): the probability   *)
(* normalisation in src/lib/llm.ts, the merge / threshold split / layout /  *)
(* selection code of the five chance games, and the WordBuilder session.   *)
(*                                                                         *)
(* Numbers.  JavaScript doubles are modelled as exact rationals <<n, d>>   *)
(* in lowest terms with d > 0.  A log-probability is modelled by the       *)
(* rational whose natural logarithm it is: [ln |-> q] stands for ln(q), so *)
(* Math.exp, Math.log, subtraction and Math.max of logarithms are exact.   *)
(*                                                                         *)
(* Text.  A JavaScript string is a sequence of one-character strings, so   *)
(* trim(), toLowerCase() and startsWith(' ') are computed, not assumed.    *)
(***************************************************************************)
EXTENDS Integers, Sequences, FiniteSets, TLC

(***************************************************************************)
(* Bounds of the model                                                     *)
(***************************************************************************)
\* longest candidate list handed to logprobsToProbs
MaxCands == 3
\* longest alternatives list handed to a component
MaxAlts == 3

(***************************************************************************)
(* Evaluation                                                              *)
(***************************************************************************)
\* F(v) with v evaluated once: const x = v; return F(x)
Bind(v, F(_)) == CHOOSE y \in {F(x) : x \in {v}} : TRUE
Bind2(v, w, F(_, _)) == CHOOSE y \in {F(x[1], x[2]) : x \in {<<v, w>>}} : TRUE

(***************************************************************************)
(* Exact rational arithmetic: a JavaScript number is the pair <<n, d>>     *)
(***************************************************************************)
Abs(n) == IF n < 0 THEN -n ELSE n

RECURSIVE GCD(_, _)
GCD(a, b) == IF b = 0 THEN a ELSE Bind2(b, a % b, GCD)

\* the rational n/d in lowest terms (d > 0)
Rat(n, d) == Bind(GCD(Abs(n), d), LAMBDA g : <<n \div g, d \div g>>)

Zero == <<0, 1>>
One == <<1, 1>>
\* the two numbers that are not rationals: 0/0 and 1/0
NaN == <<0, 0>>
PosInfinity == <<1, 0>>
IsFiniteNumber(x) == x[2] /= 0

RAdd(p, q) == Bind2(p, q, LAMBDA a, b : Rat(a[1] * b[2] + b[1] * a[2], a[2] * b[2]))
RSub(p, q) == Bind2(p, q, LAMBDA a, b : Rat(a[1] * b[2] - b[1] * a[2], a[2] * b[2]))
RMul(p, q) == Bind2(p, q, LAMBDA a, b : Rat(a[1] * b[1], a[2] * b[2]))
\* p / q for q > 0
RDiv(p, q) == Bind2(p, q, LAMBDA a, b : Rat(a[1] * b[2], a[2] * b[1]))
RLt(p, q) == Bind2(p, q, LAMBDA a, b : a[1] * b[2] < b[1] * a[2])
RLe(p, q) == Bind2(p, q, LAMBDA a, b : a[1] * b[2] <= b[1] * a[2])
RMax(p, q) == Bind2(p, q, LAMBDA a, b : IF RLt(a, b) THEN b ELSE a)
RMin(p, q) == Bind2(p, q, LAMBDA a, b : IF RLt(b, a) THEN b ELSE a)

\* reduce((sum, x) => sum + x, 0) over the first n of a sequence of rationals
RECURSIVE RSumTo(_, _)
RSumTo(s, n) == IF n = 0 THEN Zero ELSE RAdd(RSumTo(s, n - 1), s[n])

RSum(s) == Bind(s, LAMBDA v : RSumTo(v, Len(v)))

\* the probabilities of a list of tokens / outcomes, in list order
Probs(s) == Bind(s, LAMBDA v : [i \in 1..Len(v) |-> v[i].probability])
SumProb(s) == RSum(Probs(s))

\* Math.floor(u * n) for a unit u in [0, 1) and a length n
FloorMul(u, n) == Bind(u, LAMBDA a : (a[1] * n) \div a[2])

(***************************************************************************)
(* Logarithms: [ln |-> q] is ln(q), q > 0; [ln |-> Zero] is -Infinity,     *)
(* [ln |-> PosInfinity] is +Infinity and [ln |-> NaN] is NaN               *)
(***************************************************************************)
MathLog(q) == [ln |-> q]
MathExp(l) == l.ln
\* a - b on logarithms: ln(x) - ln(y) = ln(x / y); NaN - b and a - NaN are
\* NaN, Infinity - Infinity is NaN, a - Infinity is -Infinity
LogMinus(a, b) ==
    Bind2(a.ln, b.ln, LAMBDA x, y :
        IF x = NaN \/ y = NaN THEN [ln |-> NaN]
        ELSE IF y = PosInfinity THEN (IF x = PosInfinity THEN [ln |-> NaN] ELSE [ln |-> Zero])
        ELSE IF x = PosInfinity THEN [ln |-> PosInfinity]
        ELSE [ln |-> RDiv(x, y)])
\* a + b and a / b on numbers one of which may be NaN (b > 0 otherwise)
NumAdd(p, q) == Bind2(p, q, LAMBDA a, b : IF a = NaN \/ b = NaN THEN NaN ELSE RAdd(a, b))
NumDiv(p, q) == Bind2(p, q, LAMBDA a, b : IF a = NaN \/ b = NaN THEN NaN ELSE RDiv(a, b))
\* reduce((sum, val) => sum + val, 0)
RECURSIVE NumSum(_)
NumSum(s) ==
    Bind(s, LAMBDA v : IF v = <<>> THEN Zero
                       ELSE NumAdd(NumSum(SubSeq(v, 1, Len(v) - 1)), v[Len(v)]))

\* Math.max(...logprobs) over the first n of a non-empty sequence of logarithms
RECURSIVE MathMaxLogTo(_, _)
MathMaxLogTo(s, n) ==
    IF n = 1 THEN s[1]
    ELSE Bind(MathMaxLogTo(s, n - 1),
              LAMBDA m : IF m.ln = NaN \/ s[n].ln = NaN THEN [ln |-> NaN]
                         ELSE IF m.ln = PosInfinity \/ s[n].ln = PosInfinity
                              THEN [ln |-> PosInfinity]
                         ELSE IF RLt(m.ln, s[n].ln) THEN s[n] ELSE m)

MathMaxLog(s) == Bind(s, LAMBDA v : MathMaxLogTo(v, Len(v)))

(***************************************************************************)
(* Strings                                                                 *)
(***************************************************************************)
IsWhitespace(c) == c = " "

RECURSIVE TrimStart(_)
TrimStart(s) ==
    Bind(s, LAMBDA v : IF v /= <<>> /\ IsWhitespace(Head(v)) THEN TrimStart(Tail(v)) ELSE v)

RECURSIVE TrimEnd(_)
TrimEnd(s) ==
    Bind(s, LAMBDA v : IF v /= <<>> /\ IsWhitespace(v[Len(v)])
                       THEN TrimEnd(SubSeq(v, 1, Len(v) - 1)) ELSE v)

Trim(s) == TrimEnd(TrimStart(s))

LowerChar(c) ==
    CASE c = "M" -> "m"
      [] c = "C" -> "c"
      [] c = "O" -> "o"
      [] c = "T" -> "t"
      [] c = "H" -> "h"
      [] c = "E" -> "e"
      [] c = "R" -> "r"
      [] OTHER -> c

ToLowerCase(s) == Bind(s, LAMBDA v : [i \in 1..Len(v) |-> LowerChar(v[i])])

StartsWithSpace(s) == s /= <<>> /\ s[1] = " "

\* control characters \x00-\x1F and \x7F that trim() does not strip
IsControlChar(c) == c \in {"^A", "^?"}
IsHexChar(c) == c \in {"0", "1", "2", "3", "4", "5", "6", "7", "8", "9",
                       "a", "b", "c", "d", "e", "f", "A", "B", "C", "D", "E", "F"}

\* the token texts the model uses
TokSpMat == <<" ", "M", "a", "t">>
TokMat == <<"m", "a", "t">>
TokCat == <<"c", "a", "t">>
TokSpDog == <<" ", "d", "o", "g">>
TokUnk == <<"<", "u", "n", "k", ">">>
\* the text of the synthetic token addOtherCategory appends
OTHER_TOKEN == <<"<", "O", "T", "H", "E", "R", ">">>
\* the text the games give their synthetic bin / wedge / face / ball
OtherLabel == <<"O", "t", "h", "e", "r">>

isValidToken(token) ==
    Bind(Trim(token), LAMBDA trimmed :
        IF token = <<>> THEN FALSE
        ELSE IF trimmed = <<>> THEN FALSE
        ELSE IF Len(trimmed) >= 2 /\ trimmed[1] = "<" /\ trimmed[Len(trimmed)] = ">"
             THEN FALSE
        ELSE IF \A i \in 1..Len(trimmed) : IsControlChar(trimmed[i]) THEN FALSE
        ELSE IF /\ Len(trimmed) >= 3
                /\ trimmed[1] = "\\"
                /\ trimmed[2] = "x"
                /\ \A i \in 3..Len(trimmed) : IsHexChar(trimmed[i]) THEN FALSE
        ELSE TRUE)

\* alt.token.trim().toLowerCase()
DisplayKey(token) == ToLowerCase(Trim(token))

(***************************************************************************)
(* src/lib/llm.ts                                                          *)
(***************************************************************************)
\* Token objects carry token, token_id, probability, log_probability, is_other
Token(token, id, p, isOther) ==
    [token |-> token, token_id |-> id, probability |-> p,
     log_probability |-> MathLog(p), is_other |-> isOther]

\* prob: Math.exp(logProbability) with no normalisation, as getLogprobs does
logprobsToProbsRaw(candidates) ==
    Bind(candidates, LAMBDA cs :
    [i \in 1..Len(cs) |->
        [token |-> cs[i].token,
         token_id |-> i - 1,
         probability |-> MathExp(cs[i].logProbability),
         log_probability |-> cs[i].logProbability,
         is_other |-> FALSE]])

logprobsToProbs(candidates) ==
    IF Len(candidates) = 0 THEN <<>>
    ELSE
      Bind([i \in 1..Len(candidates) |-> candidates[i].logProbability], LAMBDA logprobs :
      Bind(MathMaxLog(logprobs), LAMBDA maxLogProb :
      Bind([i \in 1..Len(logprobs) |-> MathExp(LogMinus(logprobs[i], maxLogProb))],
           LAMBDA expValues :
      Bind(NumSum(expValues), LAMBDA sumExp :
          [i \in 1..Len(candidates) |->
              [token |-> candidates[i].token,
               token_id |-> i - 1,
               probability |-> NumDiv(expValues[i], sumExp),
               log_probability |-> candidates[i].logProbability,
               is_other |-> FALSE]]))))

\* default value of addOtherCategory's minProbability parameter
DefaultMinProbability == <<1, 100>>

\* addOtherCategory with the test on minProbability left out
addOtherCategoryAlways(tokens, minProbability) ==
    Bind(NumSum(Probs(tokens)), LAMBDA totalProb :
    IF totalProb = NaN THEN tokens
    ELSE
    Bind(RMax(Zero, RSub(One, totalProb)), LAMBDA remainingProb :
        Append(tokens, [token |-> OTHER_TOKEN,
                        token_id |-> -1,
                        probability |-> remainingProb,
                        log_probability |-> MathLog(remainingProb),
                        is_other |-> TRUE])))

\* (a NaN total makes remainingProb NaN, and NaN >= minProbability is false)
addOtherCategory(tokens, minProbability) ==
    Bind(NumSum(Probs(tokens)), LAMBDA totalProb :
    IF totalProb = NaN THEN tokens
    ELSE
    Bind(RMax(Zero, RSub(One, totalProb)), LAMBDA remainingProb :
        IF RLe(minProbability, remainingProb)
        THEN Append(tokens, [token |-> OTHER_TOKEN,
                             token_id |-> -1,
                             probability |-> remainingProb,
                             log_probability |-> MathLog(remainingProb),
                             is_other |-> TRUE])
        ELSE tokens))

\* getNextToken from the topCandidates of the response on
getNextToken(topCandidates) ==
    Bind(logprobsToProbs(topCandidates), LAMBDA tokens :
        addOtherCategory(tokens, DefaultMinProbability))

\* the loop "random -= p; if (random <= 0) return" that every selector
\* runs: the 1-based index at which it returns, 0 when it runs off the end
\* (NaN - p and x - NaN are NaN, and NaN <= 0 is false)
RECURSIVE SubtractLoop(_, _, _)
SubtractLoop(probs, random, i) ==
    IF i > Len(probs) THEN 0
    ELSE Bind(IF random = NaN \/ probs[i] = NaN THEN NaN ELSE RSub(random, probs[i]),
              LAMBDA rest :
                 IF rest /= NaN /\ RLe(rest, Zero) THEN i
                 ELSE SubtractLoop(probs, rest, i + 1))

\* Math.random() * total, then the loop; r is the value Math.random() returned
WeightedIndex(probs, r) ==
    Bind(probs, LAMBDA ps :
    Bind(NumSum(ps), LAMBDA total :
    Bind(IF total = NaN THEN NaN ELSE RMul(r, total), LAMBDA random :
        SubtractLoop(ps, random, 1))))

\* selectWeighted(alternatives) over {token, prob} objects; <<>> is ''
selectWeighted(alternatives, r) ==
    IF Len(alternatives) = 0 THEN <<>>
    ELSE Bind(WeightedIndex([k \in 1..Len(alternatives) |-> alternatives[k].prob], r),
              LAMBDA i : IF i > 0 THEN alternatives[i].token ELSE alternatives[1].token)

(***************************************************************************)
(* The filter, merge and sort every component runs on its alternatives     *)
(***************************************************************************)
\* [...alternatives].filter(a => !a.is_other && isValidToken(a.token))
FilterValid(alternatives) ==
    LET Keep(a) == ~a.is_other /\ isValidToken(a.token)
    IN  SelectSeq(alternatives, Keep)

\* one pass of the merge loop that forgets the probability of the later variant
MergeIntoDropping(acc, alt) ==
    Bind(DisplayKey(alt.token), LAMBDA displayKey :
    Bind({i \in 1..Len(acc) : DisplayKey(acc[i].token) = displayKey}, LAMBDA hit :
        IF hit /= {} THEN acc ELSE Append(acc, alt)))

\* one pass of the merge loop: mergedMap is kept as the sequence of its values
\* in insertion order
MergeInto(acc, alt) ==
    Bind(DisplayKey(alt.token), LAMBDA displayKey :
    Bind({i \in 1..Len(acc) : DisplayKey(acc[i].token) = displayKey}, LAMBDA hit :
        IF hit /= {}
        THEN LET i == CHOOSE k \in hit : TRUE
                 existing == acc[i]
                 preferredToken == IF StartsWithSpace(alt.token) THEN alt.token
                                   ELSE existing.token
             IN  [acc EXCEPT ![i] =
                    [existing EXCEPT
                       !.token = preferredToken,
                       !.probability = RAdd(existing.probability, alt.probability),
                       !.log_probability =
                           MathLog(RAdd(MathExp(existing.log_probability),
                                        MathExp(alt.log_probability)))]]
        ELSE Append(acc, alt)))

\* the for loop over filtered: each pass works on the map the passes before left
RECURSIVE MergeLoop(_, _)
MergeLoop(filtered, n) ==
    IF n = 0 THEN <<>> ELSE Bind2(MergeLoop(filtered, n - 1), filtered[n], MergeInto)

\* Array.from(mergedMap.values())
MergeTokens(filtered) == Bind(filtered, LAMBDA f : MergeLoop(f, Len(f)))

\* Array.prototype.sort((a, b) => b.probability - a.probability) is stable:
\* the indices of probs in the order the sort leaves them
RECURSIVE SortPerm(_, _)
SortPerm(probs, n) ==
    IF n = 0 THEN <<>>
    ELSE Bind(SortPerm(probs, n - 1), LAMBDA prev :
         Bind(Cardinality({j \in 1..Len(prev) : RLe(probs[n], probs[prev[j]])}), LAMBDA k :
             SubSeq(prev, 1, k) \o <<n>> \o SubSeq(prev, k + 1, Len(prev))))

SortByProbDesc(s) ==
    Bind(s, LAMBDA v :
    Bind(Probs(v), LAMBDA probs :
    Bind(SortPerm(probs, Len(v)), LAMBDA perm : [k \in 1..Len(v) |-> v[perm[k]]])))

\* .slice(0, n)
Slice0(s, n) == Bind(s, LAMBDA v : SubSeq(v, 1, IF Len(v) < n THEN Len(v) ELSE n))

\* filter, merge and sort: the list each component splits
MergedSorted(alternatives) == SortByProbDesc(MergeTokens(FilterValid(alternatives)))

\* MIN_PROBABILITY_THRESHOLD = 0.03, repeated in every component
MIN_PROBABILITY_THRESHOLD == <<3, 100>>

\* the split loop: main when probability >= threshold (and, in DiceRoll and
\* LotteryBalls, while main holds fewer than cap entries), other otherwise
RECURSIVE SplitLoop(_, _, _)
SplitLoop(sorted, n, cap) ==
    IF n = 0 THEN [main |-> <<>>, other |-> <<>>]
    ELSE Bind2(SplitLoop(sorted, n - 1, cap), sorted[n], LAMBDA prev, alt :
             IF RLe(MIN_PROBABILITY_THRESHOLD, alt.probability) /\ Len(prev.main) < cap
             THEN [prev EXCEPT !.main = Append(@, alt)]
             ELSE [prev EXCEPT !.other = Append(@, alt)])

(***************************************************************************)
(* src/components/WordBuilder.tsx: mainTokens / otherTokens useMemo        *)
(***************************************************************************)
\* initial value of the maxTokens state ("Max Words Shown")
DefaultMaxTokens == 12

WordBuilderSplit(alternatives, maxTokens) ==
    Bind(Slice0(MergedSorted(alternatives), maxTokens), LAMBDA sorted :
    Bind(SplitLoop(sorted, Len(sorted), Len(sorted) + 1), LAMBDA parts :
        [sorted |-> sorted,
         mainTokens |-> parts.main,
         otherTokens |-> parts.other,
         otherProbSum |-> SumProb(parts.other)]))

(***************************************************************************)
(* src/components/games/Plinko.tsx                                         *)
(***************************************************************************)
boardWidth == 700
pegRows == 10
\* Math.max(30, Math.min(boardWidth - 30, x)): the margin kept at both edges
dropMargin == 30

\* the split that lets a token equal to the threshold fall through both tests
PlinkoSplitStrict(alternatives) ==
    LET Main(a) == RLt(MIN_PROBABILITY_THRESHOLD, a.probability)
        Other(a) == RLt(a.probability, MIN_PROBABILITY_THRESHOLD)
    IN  Bind(MergedSorted(alternatives), LAMBDA sorted :
            [sorted |-> sorted,
             main |-> SelectSeq(sorted, Main),
             other |-> SelectSeq(sorted, Other)])

\* sorted, and the split into mainTokens (alt) and otherTokens
PlinkoSplit(alternatives) ==
    Bind(MergedSorted(alternatives), LAMBDA sorted :
    Bind(SplitLoop(sorted, Len(sorted), Len(sorted) + 1), LAMBDA parts :
        [sorted |-> sorted, main |-> parts.main, other |-> parts.other]))

\* colorIndex of a main token: its index in sorted (0-based)
ColorIndexOf(sorted, alt) ==
    (CHOOSE i \in 1..Len(sorted) : sorted[i] = alt) - 1

Reverse(s) == Bind(s, LAMBDA v : [i \in 1..Len(v) |-> v[Len(v) + 1 - i]])

\* arrangeForCenter with left.push in place of left.unshift
arrangeForCenterPush(alts) ==
    IF Len(alts) <= 1 THEN alts
    ELSE LET IsLeft(i) == i > 1 /\ (i - 1) % 2 = 1
             IsRight(i) == i > 1 /\ (i - 1) % 2 = 0
         IN  Bind(SortByProbDesc(alts), LAMBDA sorted :
             Bind(SelectSeq([i \in 1..Len(sorted) |-> i], IsLeft), LAMBDA leftIdx :
             Bind(SelectSeq([i \in 1..Len(sorted) |-> i], IsRight), LAMBDA rightIdx :
                 [k \in 1..Len(leftIdx) |-> sorted[leftIdx[k]]]
                 \o <<sorted[1]>>
                 \o [k \in 1..Len(rightIdx) |-> sorted[rightIdx[k]]])))

\* arrangeForCenter: sorted[0] in the middle, sorted[1], sorted[3], ...
\* unshifted on the left, sorted[2], sorted[4], ... pushed on the right
arrangeForCenter(alts) ==
    IF Len(alts) <= 1 THEN alts
    ELSE LET IsLeft(i) == i > 1 /\ (i - 1) % 2 = 1
             IsRight(i) == i > 1 /\ (i - 1) % 2 = 0
         IN  Bind(SortByProbDesc(alts), LAMBDA sorted :
             Bind(SelectSeq([i \in 1..Len(sorted) |-> i], IsLeft), LAMBDA leftIdx :
             Bind(SelectSeq([i \in 1..Len(sorted) |-> i], IsRight), LAMBDA rightIdx :
                 Reverse([k \in 1..Len(leftIdx) |-> sorted[leftIdx[k]]])
                 \o <<sorted[1]>>
                 \o [k \in 1..Len(rightIdx) |-> sorted[rightIdx[k]]])))

\* (p / totalProb) * 100
PercentOf(p, totalProb) == RMul(RDiv(p, totalProb), <<100, 1>>)

\* the bins pushed for the first n centre-arranged main tokens
RECURSIVE PlinkoMainBins(_, _, _, _)
PlinkoMainBins(arranged, sorted, totalProb, n) ==
    IF n = 0 THEN <<>>
    ELSE Bind2(PlinkoMainBins(arranged, sorted, totalProb, n - 1), arranged[n],
               LAMBDA prev, alt :
             Append(prev, [token |-> alt.token,
                           probability |-> alt.probability,
                           isOther |-> FALSE,
                           otherTokens |-> <<>>,
                           widthPercent |-> PercentOf(alt.probability, totalProb),
                           startPercent |->
                               IF prev = <<>> THEN Zero
                               ELSE RAdd(prev[Len(prev)].startPercent,
                                         prev[Len(prev)].widthPercent),
                           colorIndex |-> ColorIndexOf(sorted, alt)]))

\* the bins useMemo
PlinkoBins(alternatives) ==
    Bind(PlinkoSplit(alternatives), LAMBDA split :
    Bind2(split.other, SumProb(split.other), LAMBDA otherTokens, otherProbSum :
    Bind2(RAdd(SumProb(split.main), otherProbSum), arrangeForCenter(split.main),
          LAMBDA totalProb, centerArranged :
    Bind(PlinkoMainBins(centerArranged, split.sorted, totalProb, Len(centerArranged)),
         LAMBDA mainBins :
        IF Len(otherTokens) > 0 /\ RLt(Zero, otherProbSum)
        THEN Append(mainBins, [token |-> OtherLabel,
                               probability |-> otherProbSum,
                               isOther |-> TRUE,
                               otherTokens |-> otherTokens,
                               widthPercent |-> PercentOf(otherProbSum, totalProb),
                               startPercent |->
                                   IF mainBins = <<>> THEN Zero
                                   ELSE RAdd(mainBins[Len(mainBins)].startPercent,
                                             mainBins[Len(mainBins)].widthPercent),
                               colorIndex |-> -1])
        ELSE mainBins))))

\* getBinAtPosition(x): bins are numbered from 1 here, from 0 in the code;
\* x is a rational number of pixels
RECURSIVE BinScan(_, _, _)
BinScan(bins, percent, i) ==
    IF i > Len(bins) THEN Len(bins)
    ELSE Bind(RAdd(bins[i].startPercent, bins[i].widthPercent), LAMBDA binEnd :
             IF RLt(percent, binEnd) THEN i ELSE BinScan(bins, percent, i + 1))

getBinAtPosition(bins, x) ==
    Bind2(bins, RMul(RDiv(x, <<boardWidth, 1>>), <<100, 1>>),
          LAMBDA bs, percent : BinScan(bs, percent, 1))

(***************************************************************************)
(* SpinWheel (src/unnamed/part_003, second component of the file)          *)
(***************************************************************************)
WheelSplit(alternatives) ==
    Bind(MergedSorted(alternatives), LAMBDA sorted :
    Bind(SplitLoop(sorted, Len(sorted), Len(sorted) + 1), LAMBDA parts :
        [sorted |-> sorted, main |-> parts.main, other |-> parts.other]))

\* the angle the first wedge starts at
wheelStartAngle == -90

RECURSIVE WheelMainWedges(_, _, _)
WheelMainWedges(mainTokens, totalProb, n) ==
    IF n = 0 THEN <<>>
    ELSE Bind2(WheelMainWedges(mainTokens, totalProb, n - 1), mainTokens[n],
               LAMBDA prev, alt :
         Bind2(IF prev = <<>> THEN <<wheelStartAngle, 1>> ELSE prev[Len(prev)].endAngle,
               RMul(RDiv(alt.probability, totalProb), <<360, 1>>),
               LAMBDA startAngle, angle :
             Append(prev, [token |-> alt.token,
                           token_id |-> alt.token_id,
                           probability |-> alt.probability,
                           startAngle |-> startAngle,
                           endAngle |-> RAdd(startAngle, angle),
                           angle |-> angle,
                           isOther |-> FALSE,
                           otherTokens |-> <<>>])))

\* the wedges useMemo
WheelWedges(alternatives) ==
    Bind(WheelSplit(alternatives), LAMBDA split :
    Bind2(split.other, SumProb(split.other), LAMBDA otherTokens, otherProbSum :
    Bind(RAdd(SumProb(split.main), otherProbSum), LAMBDA totalProb :
        IF totalProb = Zero THEN <<>>
        ELSE
    Bind(WheelMainWedges(split.main, totalProb, Len(split.main)), LAMBDA mainWedges :
    Bind2(IF mainWedges = <<>> THEN <<wheelStartAngle, 1>>
          ELSE mainWedges[Len(mainWedges)].endAngle,
          RMul(RDiv(otherProbSum, totalProb), <<360, 1>>),
          LAMBDA currentAngle, angle :
        IF Len(otherTokens) > 0 /\ RLt(Zero, otherProbSum)
        THEN Append(mainWedges, [token |-> OtherLabel,
                                 token_id |-> -1,
                                 probability |-> otherProbSum,
                                 startAngle |-> currentAngle,
                                 endAngle |-> RAdd(currentAngle, angle),
                                 angle |-> angle,
                                 isOther |-> TRUE,
                                 otherTokens |-> otherTokens])
        ELSE mainWedges)))))

\* Math.trunc of a rational, and the % of JavaScript: the remainder has the
\* sign of the dividend
RTrunc(q) == Bind(q, LAMBDA a : IF a[1] >= 0 THEN a[1] \div a[2] ELSE -((-a[1]) \div a[2]))
JsMod(x, m) == RSub(x, <<m * RTrunc(RDiv(x, <<m, 1>>)), 1>>)

\* the wedge at the pointer for the rotation rot, numbered from 1 here
RECURSIVE PointerScan(_, _, _)
PointerScan(wedges, pointerAngle, i) ==
    IF i > Len(wedges) THEN 1
    ELSE IF \/ RLe(wedges[i].startAngle, pointerAngle) /\ RLt(pointerAngle, wedges[i].endAngle)
            \/ /\ RLe(wedges[i].startAngle, RAdd(pointerAngle, <<360, 1>>))
               /\ RLt(RAdd(pointerAngle, <<360, 1>>), wedges[i].endAngle)
         THEN i
    ELSE PointerScan(wedges, pointerAngle, i + 1)

getWedgeAtPointer(wedges, rot) ==
    Bind(JsMod(RAdd(JsMod(rot, 360), <<360, 1>>), 360), LAMBDA normalizedRot :
    Bind(RSub(JsMod(RAdd(JsMod(RSub(<<-90, 1>>, normalizedRot), 360), <<360, 1>>), 360),
              <<360, 1>>),
         LAMBDA pointerAngle : PointerScan(wedges, pointerAngle, 1)))

\* spins = 5 + Math.random() * 3 for the value s of Math.random()
minSpins == 5
extraSpins == 3

\* finalRotation of spin()
FinalRotation(winner, s, startRotation) ==
    Bind2(RDiv(RAdd(winner.startAngle, winner.endAngle), <<2, 1>>),
          RAdd(<<minSpins, 1>>, RMul(s, <<extraSpins, 1>>)),
          LAMBDA winnerMidAngle, spins :
    Bind(RSub(<<-90, 1>>, winnerMidAngle), LAMBDA targetAngle :
        RSub(RAdd(RAdd(startRotation, RMul(spins, <<360, 1>>)), targetAngle),
             JsMod(startRotation, 360))))

\* the draw at the top of spin(): winnerIndex, numbered from 1 here
WheelWinnerIndex(wedges, r) ==
    Bind(WeightedIndex(Probs(wedges), r), LAMBDA i : IF i > 0 THEN i ELSE 1)

(***************************************************************************)
(* src/components/games/SlotMachine.tsx                                    *)
(***************************************************************************)
\* .slice(0, 12) of the merged, sorted alternatives
slotMaxItems == 12
\* the reel repeats displayAlternatives five times
reelCopies == 5

SlotDisplayAlternatives(alternatives) == Slice0(MergedSorted(alternatives), slotMaxItems)

RECURSIVE Repeat(_, _)
Repeat(s, n) == IF n = 0 THEN <<>> ELSE Repeat(s, n - 1) \o s

SlotReelItems(alternatives) == Repeat(SlotDisplayAlternatives(alternatives), reelCopies)

\* getWinningToken draws over the alternatives prop itself; <<>> is ''
getWinningToken(alternatives, r) ==
    Bind(WeightedIndex(Probs(alternatives), r), LAMBDA i :
        IF i > 0 THEN alternatives[i].token
        ELSE IF Len(alternatives) > 0 THEN alternatives[1].token
        ELSE <<>>)

(***************************************************************************)
(* src/components/games/DiceRoll.tsx: DiceRoll                             *)
(***************************************************************************)
\* a die has six faces: main.length < 6, faces.slice(0, 6), items.length < 6
diceMaxFaces == 6

\* faces (main) and otherTokens (other)
DiceSplit(alternatives) ==
    Bind(MergedSorted(alternatives), LAMBDA sorted :
    Bind(SplitLoop(sorted, Len(sorted), diceMaxFaces), LAMBDA parts :
        [sorted |-> sorted, main |-> parts.main, other |-> parts.other]))

Face(token, p, isOther) == [token |-> token, probability |-> p, isOther |-> isOther]

RECURSIVE PadFaces(_)
PadFaces(items) ==
    Bind(items, LAMBDA v :
        IF Len(v) < diceMaxFaces /\ Len(v) > 0 THEN PadFaces(Append(v, v[Len(v)])) ELSE v)

\* the diceFaces useMemo
DiceFaces(faces, otherTokens) ==
    Bind(Slice0(faces, diceMaxFaces), LAMBDA shown :
    Bind([i \in 1..Len(shown) |-> Face(shown[i].token, shown[i].probability, FALSE)],
         LAMBDA items :
        PadFaces(IF Len(otherTokens) > 0 /\ Len(items) < diceMaxFaces
                 THEN Append(items, Face(OtherLabel, SumProb(otherTokens), TRUE))
                 ELSE items)))

\* allItems of DiceRoll's selectWeighted
DiceAllItems(faces, otherTokens) ==
    LET shown == Slice0(faces, diceMaxFaces)
    IN  IF Len(otherTokens) > 0
        THEN Append(shown, [token |-> OtherLabel,
                            probability |-> SumProb(otherTokens),
                            token_id |-> -1,
                            log_probability |-> MathLog(One),
                            is_other |-> TRUE])
        ELSE shown

\* DiceRoll's selectWeighted: r is the first Math.random(), u the one that
\* indexes otherTokens
DiceSelectWeighted(faces, otherTokens, r, u) ==
    Bind(DiceAllItems(faces, otherTokens), LAMBDA allItems :
    Bind(WeightedIndex(Probs(allItems), r), LAMBDA i :
        IF i > 0
        THEN IF allItems[i].token = OtherLabel /\ Len(otherTokens) > 0
             THEN otherTokens[FloorMul(u, Len(otherTokens)) + 1].token
             ELSE allItems[i].token
        ELSE IF Len(allItems) > 0 THEN allItems[1].token
        ELSE <<>>))

(***************************************************************************)
(* src/components/games/DiceRoll.tsx: LotteryBalls                         *)
(***************************************************************************)
\* main.length < 10
lotteryMaxBalls == 10

\* tokens (main) and otherTokens (other)
LotterySplit(alternatives) ==
    Bind(MergedSorted(alternatives), LAMBDA sorted :
    Bind(SplitLoop(sorted, Len(sorted), lotteryMaxBalls), LAMBDA parts :
        [sorted |-> sorted, main |-> parts.main, other |-> parts.other]))

\* the balls the useEffect builds; positions and velocities are not modelled
LotteryBallsOf(tokens, otherTokens) ==
    LET mainBalls == [i \in 1..Len(tokens) |->
                        [id |-> i - 1, token |-> tokens[i].token,
                         probability |-> tokens[i].probability, isOther |-> FALSE]]
    IN  IF Len(otherTokens) > 0
        THEN Append(mainBalls, [id |-> Len(tokens), token |-> OtherLabel,
                                probability |-> SumProb(otherTokens), isOther |-> TRUE])
        ELSE mainBalls

\* LotteryBalls' selectWeighted: the ball index (from 1; 0 when the loop chose
\* none and allItems[0] is returned) and the token
LotterySelectWeighted(balls, otherTokens, r, u) ==
    Bind(WeightedIndex(Probs(balls), r), LAMBDA i :
        IF i > 0
        THEN IF balls[i].isOther /\ Len(otherTokens) > 0
             THEN [ball |-> i,
                   token |-> otherTokens[FloorMul(u, Len(otherTokens)) + 1].token]
             ELSE [ball |-> i, token |-> balls[i].token]
        ELSE [ball |-> IF Len(balls) > 0 THEN 1 ELSE 0,
              token |-> IF Len(balls) > 0 THEN balls[1].token ELSE <<>>])

(***************************************************************************)
(* State                                                                   *)
(***************************************************************************)
VARIABLES
    \* the functions applied to drawn inputs
    fnIn,           \* the input: candidates, a token list, or outcomes and a draw
    fnOut,          \* what the last function applied returned
    \* one mounted chance game
    gGame,          \* selectedGame
    gAlts,          \* the alternatives prop
    gBusy,          \* isDropping / isSpinning / isRolling / isMixing
    gCanStop,       \* SlotMachine's canStop
    rotation,       \* SpinWheel's rotation, in degrees
    gTimers,        \* pending setTimeout / setInterval callbacks with their closures
    gResults,       \* the tokens passed to onResult, in call order
    gLast,          \* history: the latest draw, the winner it gave, the triggers so far
    \* the WordBuilder session
    seedInput,
    builtSentence,
    alternatives,
    isLoading,
    error,
    requests,       \* fetches of /api/next-token awaiting their response
    wbTimers,       \* pending 800 ms floating-word timers with their closures
    issued,         \* history: per request issued, its prefix and how it ended
    appliedFrom,    \* history: the request whose response setAlternatives last stored
    selections      \* history: the selections handleWordSelected accepted

fnVars == <<fnIn, fnOut>>
gameVars == <<gGame, gAlts, gBusy, gCanStop, rotation, gTimers, gResults, gLast>>
wbVars == <<seedInput, builtSentence, alternatives, isLoading, error, requests,
            wbTimers, issued, appliedFrom, selections>>
vars == <<fnVars, gameVars, wbVars>>

\* error === null, and the message the catch block stores
NoError == "null"
FetchError == "Failed to get next word options"

\* the value of a closure variable that has not been assigned a token
NoToken == <<"undefined">>
\* history of the latest pick from otherTokens: the label of the winner
\* that led to it, the Math.random() value, the otherTokens indexed with it
\* and the token it gave; none so far
Pick(winner, u, pool, token) == [winner |-> winner, u |-> u, pool |-> pool, token |-> token]
NoPick == Pick(NoToken, Zero, <<>>, NoToken)

\* no selection accepted yet; undisturbed: no reset, undo or seed change so
\* far; afterReset: handleReset has run and no selection was accepted since
NoSelections == [tokens |-> <<>>, undisturbed |-> TRUE, afterReset |-> FALSE]
\* handleWordSelected accepts a token
Accept(sel, spacedToken) ==
    [tokens |-> IF sel.undisturbed THEN Append(sel.tokens, spacedToken) ELSE <<>>,
     undisturbed |-> sel.undisturbed,
     afterReset |-> FALSE]
\* a reset, an undo or a new seed ends the undisturbed run of selections
Disturb(sel, isReset) ==
    [tokens |-> <<>>, undisturbed |-> FALSE,
     afterReset |-> IF isReset THEN TRUE ELSE sel.afterReset]

\* all sequences over S of length 0..n
SeqUpTo(S, n) == UNION {[1..k -> S] : k \in 0..n}

(***************************************************************************)
(* Inputs                                                                  *)
(***************************************************************************)
\* log-probabilities a model response can carry: ln 1, ln 1/2, ln 1/4, ln 3/100
LogChoices == {MathLog(<<1, 1>>), MathLog(<<1, 2>>), MathLog(<<1, 4>>), MathLog(<<3, 100>>)}
CandidateTexts == {TokSpMat, TokCat}
CandidateLists ==
    SeqUpTo([token : CandidateTexts, logProbability : LogChoices], MaxCands)
    \cup {c \in SeqUpTo([token : {TokCat},
                         logProbability : {MathLog(<<1, 2>>), [ln |-> NaN],
                                           [ln |-> PosInfinity]}],
                        MaxCands) :
            \E i \in 1..Len(c) : ~IsFiniteNumber(c[i].logProbability.ln)}

\* token texts and probabilities of the alternatives handed to components
AltTexts == {TokSpMat, TokMat, TokCat}
\* below the 0.03 threshold (two of them make 0.01) and above it
AltProbs == {<<1, 200>>, <<1, 2>>}
\* a text with a probability; one entry of probability 0, one exactly at the
\* threshold, one control token that isValidToken rejects, and one that
\* leaves less than 0.01 for the rest of the vocabulary
AltEntries ==
    (AltTexts \X AltProbs)
    \cup {<<TokCat, <<0, 1>>>>, <<TokCat, <<3, 100>>>>, <<TokUnk, <<1, 2>>>>,
          <<TokSpMat, <<199, 200>>>>}
\* spellings of one word that share the display key "mat"
VariantEntries ==
    {<<TokSpMat, <<1, 10>>>>, <<TokMat, <<1, 20>>>>,
     <<<<" ", "m", "a", "t">>, <<1, 20>>>>}
\* responses with one candidate more than a die has faces and than the
\* lottery has balls, all equally likely
WideTokenLists ==
    LET texts == <<"a", "b", "g", "h", "i", "j", "k", "l", "n", "p", "q">>
    IN  {[i \in 1..n |-> Token(<<texts[i]>>, i - 1, <<1, n>>, FALSE)] :
            n \in {diceMaxFaces + 1, lotteryMaxBalls + 1}}
\* responses of four and five words in every order, two pairs of them
\* equally likely, enough for two bins on each side of the centre
RankedTokenLists ==
    LET entries == <<<<"a", <<3, 10>>>>, <<"b", <<3, 10>>>>, <<"g", <<1, 5>>>>,
                     <<"h", <<1, 10>>>>, <<"i", <<1, 10>>>>>>
        Orders(n) == {t \in [1..n -> 1..n] : \A i, j \in 1..n : t[i] = t[j] => i = j}
    IN  UNION {{[i \in 1..n |-> Token(<<entries[s[i]][1]>>, i - 1, entries[s[i]][2], FALSE)] :
                    s \in Orders(n)} : n \in {4, 5}}
\* token lists as logprobsToProbs numbers them: token_id is the index
TokenLists ==
    {[i \in 1..Len(s) |-> Token(s[i][1], i - 1, s[i][2], FALSE)] :
        s \in SeqUpTo(AltEntries, MaxAlts)}
    \cup WideTokenLists
    \cup {[i \in 1..Len(s) |-> Token(s[i][1], i - 1, s[i][2], FALSE)] :
            s \in SeqUpTo(VariantEntries, MaxAlts)}
    \cup RankedTokenLists

\* values Math.random() can return: 0 <= r < 1
RandomUnits == {<<0, 1>>, <<299, 1000>>, <<3, 10>>, <<301, 1000>>, <<1, 2>>, <<999, 1000>>}
SelectProbs == {<<0, 1>>, <<3, 10>>, <<1, 2>>, <<7, 10>>}
\* {token, prob} lists for selectWeighted; the token names the position
SelectLists ==
    {[i \in 1..Len(s) |-> [token |-> <<"t", i>>, prob |-> s[i]]] :
        s \in SeqUpTo(SelectProbs \cup {NaN}, MaxAlts)}

FnInputs ==
    {[kind |-> "candidates", candidates |-> c] : c \in CandidateLists}
    \cup {[kind |-> "tokens", tokens |-> t] : t \in TokenLists}
    \cup {[kind |-> "select", alternatives |-> a, r |-> r] :
            a \in SelectLists, r \in RandomUnits}

(***************************************************************************)
(* Idle values of the parts a specification does not exercise              *)
(***************************************************************************)
FnIdle == fnIn = [kind |-> "none"] /\ fnOut = [op |-> "none"]

GameIdle ==
    /\ gGame = "none"
    /\ gAlts = <<>>
    /\ gBusy = FALSE
    /\ gCanStop = FALSE
    /\ rotation = Zero
    /\ gTimers = <<>>
    /\ gResults = <<>>
    /\ gLast = [n |-> 0, game |-> "none", r |-> Zero, winner |-> NoToken, pick |-> NoPick]

WbIdle ==
    /\ seedInput = <<>>
    /\ builtSentence = <<>>
    /\ alternatives = <<>>
    /\ isLoading = FALSE
    /\ error = NoError
    /\ requests = {}
    /\ wbTimers = <<>>
    /\ issued = <<>>
    /\ appliedFrom = 0
    /\ selections = NoSelections

(***************************************************************************)
(* The functions applied to drawn inputs                                   *)
(***************************************************************************)
FnInit == fnIn \in FnInputs /\ fnOut = [op |-> "none"] /\ GameIdle /\ WbIdle

\* what getNextToken hands on for a token list: addOtherCategory(tokens)
FnAlternatives == addOtherCategory(fnIn.tokens, DefaultMinProbability)

FnNormalize ==
    /\ fnIn.kind = "candidates"
    /\ fnOut.op = "none"
    /\ fnOut' = [op |-> "normalize", tokens |-> logprobsToProbs(fnIn.candidates),
                 thrown |-> "none"]
    /\ UNCHANGED <<fnIn, gameVars, wbVars>>

\* the tail of getNextToken on the candidate list of a response
FnGetNextToken ==
    /\ fnIn.kind = "candidates"
    /\ fnOut.op = "none"
    /\ fnOut' = [op |-> "getNextToken", alternatives |-> getNextToken(fnIn.candidates)]
    /\ UNCHANGED <<fnIn, gameVars, wbVars>>

FnAddOther ==
    /\ fnIn.kind = "tokens"
    /\ fnOut.op = "none"
    /\ \E minProbability \in {DefaultMinProbability, <<1, 4>>} :
         fnOut' = [op |-> "addOther", minProbability |-> minProbability,
                   alternatives |-> addOtherCategory(fnIn.tokens, minProbability)]
    /\ UNCHANGED <<fnIn, gameVars, wbVars>>

FnSelect ==
    /\ fnIn.kind = "select"
    /\ fnOut.op = "none"
    /\ fnOut' = [op |-> "select", token |-> selectWeighted(fnIn.alternatives, fnIn.r),
                 thrown |-> "none"]
    /\ UNCHANGED <<fnIn, gameVars, wbVars>>

\* the merge loop run on the token list as it stands
FnMerge ==
    /\ fnIn.kind = "tokens"
    /\ fnOut.op = "none"
    /\ fnOut' = [op |-> "merge", merged |-> MergeTokens(fnIn.tokens)]
    /\ UNCHANGED <<fnIn, gameVars, wbVars>>

\* the chips of the word grid: one per main token and, when otherTokens is
\* not empty, the "Other (n)" chip showing otherProbSum
WordChips(split) ==
    LET chips == [i \in 1..Len(split.mainTokens) |->
                     [token |-> split.mainTokens[i].token,
                      probability |-> split.mainTokens[i].probability,
                      isOther |-> FALSE]]
    IN  IF Len(split.otherTokens) > 0
        THEN Append(chips, [token |-> OtherLabel, probability |-> split.otherProbSum,
                            isOther |-> TRUE])
        ELSE chips

FnWordBuilder ==
    /\ fnIn.kind = "tokens"
    /\ fnOut.op = "none"
    /\ LET split == WordBuilderSplit(FnAlternatives, DefaultMaxTokens)
       IN  fnOut' = [op |-> "wordbuilder", entered |-> split.sorted,
                     main |-> split.mainTokens, pool |-> split.otherTokens,
                     outcomes |-> WordChips(split)]
    /\ UNCHANGED <<fnIn, gameVars, wbVars>>

FnPlinko ==
    /\ fnIn.kind = "tokens"
    /\ fnOut.op = "none"
    /\ LET split == PlinkoSplit(FnAlternatives)
       IN  fnOut' = [op |-> "plinko", entered |-> split.sorted,
                     main |-> split.main, pool |-> split.other,
                     outcomes |-> PlinkoBins(FnAlternatives)]
    /\ UNCHANGED <<fnIn, gameVars, wbVars>>

FnWheel ==
    /\ fnIn.kind = "tokens"
    /\ fnOut.op = "none"
    /\ LET split == WheelSplit(FnAlternatives)
       IN  fnOut' = [op |-> "wheel", entered |-> split.sorted,
                     main |-> split.main, pool |-> split.other,
                     outcomes |-> WheelWedges(FnAlternatives)]
    /\ UNCHANGED <<fnIn, gameVars, wbVars>>

FnDice ==
    /\ fnIn.kind = "tokens"
    /\ fnOut.op = "none"
    /\ LET split == DiceSplit(FnAlternatives)
       IN  fnOut' = [op |-> "dice", entered |-> split.sorted,
                     main |-> split.main, pool |-> split.other,
                     outcomes |-> LET items == DiceAllItems(split.main, split.other)
                                  IN  [i \in 1..Len(items) |->
                                          Face(items[i].token, items[i].probability,
                                               items[i].is_other)]]
    /\ UNCHANGED <<fnIn, gameVars, wbVars>>

FnLottery ==
    /\ fnIn.kind = "tokens"
    /\ fnOut.op = "none"
    /\ LET split == LotterySplit(FnAlternatives)
       IN  fnOut' = [op |-> "lottery", entered |-> split.sorted,
                     main |-> split.main, pool |-> split.other,
                     outcomes |-> LotteryBallsOf(split.main, split.other)]
    /\ UNCHANGED <<fnIn, gameVars, wbVars>>

FnNext ==
    \/ FnNormalize
    \/ FnGetNextToken
    \/ FnAddOther
    \/ FnSelect
    \/ FnMerge
    \/ FnWordBuilder
    \/ FnPlinko
    \/ FnWheel
    \/ FnDice
    \/ FnLottery

SpecFn == FnInit /\ [][FnNext]_vars

(***************************************************************************)
(* One mounted chance game (SpecGame)                                      *)
(***************************************************************************)
\* longest alternatives list a mounted game is given (before "<OTHER>")
MaxGameAlts == 3
\* triggers a behaviour accepts
MaxTriggers == 2

Games == {"plinko", "wheel", "slots", "dice", "lottery"}

GameEntries ==
    {<<TokSpMat, <<1, 2>>>>, <<TokMat, <<1, 2>>>>, <<TokSpMat, <<97, 100>>>>,
     <<TokCat, <<1, 50>>>>, <<TokSpDog, <<1, 100>>>>}
\* what getNextToken hands a game: tokens, then "<OTHER>" for the rest
GameAltLists ==
    {addOtherCategory([i \in 1..Len(s) |-> Token(s[i][1], i - 1, s[i][2], FALSE)],
                      DefaultMinProbability) :
        s \in SeqUpTo(GameEntries, MaxGameAlts)}
\* values Math.random() returns for the number of spins of the wheel
WheelSpinUnits == {<<0, 1>>, <<1, 2>>}
\* values Math.random() returns in a game
GameUnits == {<<0, 1>>, <<1, 2>>, <<99, 100>>}

\* a pending callback: kind, the token its closure already holds for onResult
\* (NoToken when the code has not computed one), the held-out pool it holds
Timer(kind, token, pool) == [kind |-> kind, token |-> token, pool |-> pool]

RemoveAt(s, k) == SubSeq(s, 1, k - 1) \o SubSeq(s, k + 1, Len(s))
RemoveKind(s, kind) == LET Keep(t) == t.kind /= kind IN SelectSeq(s, Keep)

GameInit ==
    /\ gGame \in Games
    /\ gAlts \in GameAltLists
    /\ gBusy = FALSE
    /\ gCanStop = FALSE
    /\ rotation = Zero
    /\ gTimers = <<>>
    /\ gResults = <<>>
    /\ gLast = [n |-> 0, game |-> "none", r |-> Zero, winner |-> NoToken, pick |-> NoPick]
    /\ FnIdle
    /\ WbIdle

\* setIsPickingOther(true); cycle(): the displayed guesses of the first
\* maxCycles calls change no state kept here; this is the call that finds
\* cycleCount = maxCycles, draws Math.random() and reports the pick; only a
\* bin or wedge with isOther starts the cycle
OtherCycle(k) ==
    /\ gTimers[k].kind = "otherCycle"
    /\ \E u \in GameUnits :
         LET pool == gTimers[k].pool
             finalToken == pool[FloorMul(u, Len(pool)) + 1]
         IN  /\ gResults' = Append(gResults, finalToken.token)
             /\ gTimers' = RemoveAt(gTimers, k)
             /\ gLast' = [gLast EXCEPT !.pick = Pick(OtherLabel, u, pool, finalToken.token)]
    /\ UNCHANGED <<gGame, rotation, gAlts, gBusy, gCanStop, fnVars, wbVars>>

\* ---- Plinko ----
\* clickX samples and the bounce (horizontalSpacing * 0.5) * (0.9 + rand * 0.2)
PlinkoDropXs == {30, 350}
PlinkoBounces == {25}

ClampX(x) ==
    IF x < dropMargin THEN dropMargin
    ELSE IF x > boardWidth - dropMargin THEN boardWidth - dropMargin
    ELSE x

\* the x the path loop can end with after the rows that remain
RECURSIVE PlinkoFall(_, _)
PlinkoFall(xs, row) ==
    IF row = pegRows THEN xs
    ELSE PlinkoFall({ClampX(x + direction * bounce) :
                        x \in xs, direction \in {-1, 1}, bounce \in PlinkoBounces},
                    row + 1)

\* handleDropZoneClick and drop(dropX)
PlinkoDrop ==
    /\ gGame = "plinko"
    /\ gLast.n < MaxTriggers
    /\ ~gBusy
    /\ \E bins \in {PlinkoBins(gAlts)} :
           /\ Len(bins) /= 0
           /\ \E clickX \in PlinkoDropXs :
              \E x \in PlinkoFall({ClampX(clickX)}, 0) :
              \E finalBin \in {getBinAtPosition(bins, <<x, 1>>)} :
                LET bin == bins[finalBin]
                IN  /\ gBusy' = TRUE
                    /\ gTimers' = Append(gTimers,
                           Timer("plinkoAnimate",
                                 IF bin.isOther /\ Len(bin.otherTokens) > 0
                                 THEN NoToken ELSE bin.token,
                                 bin.otherTokens))
                    /\ gLast' = [n |-> gLast.n + 1, game |-> "plinko",
                                 r |-> Rat(x, boardWidth), winner |-> bin.token,
                                 pick |-> NoPick]
    /\ UNCHANGED <<gGame, rotation, gAlts, gCanStop, gResults, fnVars, wbVars>>

\* the last animate() step: the ball has landed
PlinkoLand(k) ==
    /\ gTimers[k].kind = "plinkoAnimate"
    /\ gBusy' = FALSE
    /\ IF gTimers[k].token = NoToken
       THEN /\ gTimers' = [gTimers EXCEPT ![k] = Timer("otherCycle", NoToken, @.pool)]
            /\ UNCHANGED gResults
       ELSE /\ gResults' = Append(gResults, gTimers[k].token)
            /\ gTimers' = RemoveAt(gTimers, k)
    /\ UNCHANGED <<gGame, rotation, gAlts, gCanStop, gLast, fnVars, wbVars>>

\* ---- SpinWheel ----
WheelSpin ==
    /\ gGame = "wheel"
    /\ gLast.n < MaxTriggers
    /\ ~gBusy
    /\ LET wedges == WheelWedges(gAlts)
       IN  /\ Len(wedges) /= 0
           /\ \E r \in GameUnits, s \in WheelSpinUnits :
                LET winner == wedges[WheelWinnerIndex(wedges, r)]
                IN  /\ gBusy' = TRUE
                    /\ rotation' = FinalRotation(winner, s, rotation)
                    /\ gTimers' = Append(gTimers,
                           Timer("wheelStop",
                                 IF winner.isOther /\ Len(winner.otherTokens) > 0
                                 THEN NoToken ELSE winner.token,
                                 winner.otherTokens))
                    /\ gLast' = [n |-> gLast.n + 1, game |-> "wheel",
                                 r |-> r, winner |-> winner.token, pick |-> NoPick]
    /\ UNCHANGED <<gGame, gAlts, gCanStop, gResults, fnVars, wbVars>>

\* the setTimeout(..., spinDuration) callback
WheelStop(k) ==
    /\ gTimers[k].kind = "wheelStop"
    /\ gBusy' = FALSE
    /\ IF gTimers[k].token = NoToken
       THEN /\ gTimers' = [gTimers EXCEPT ![k] = Timer("otherCycle", NoToken, @.pool)]
            /\ UNCHANGED gResults
       ELSE /\ gResults' = Append(gResults, gTimers[k].token)
            /\ gTimers' = RemoveAt(gTimers, k)
    /\ UNCHANGED <<gGame, rotation, gAlts, gCanStop, gLast, fnVars, wbVars>>

\* ---- SlotMachine ----
\* pullLever: the reel starts; canStop after 800 ms, the auto-stop after 5000 ms
SlotPullLever ==
    /\ gGame = "slots"
    /\ gLast.n < MaxTriggers
    /\ ~gBusy
    /\ Len(SlotDisplayAlternatives(gAlts)) /= 0
    /\ gBusy' = TRUE
    /\ gCanStop' = FALSE
    /\ gTimers' = gTimers \o <<Timer("slotCanStop", NoToken, <<>>),
                               Timer("slotAutoStop", NoToken, <<>>)>>
    /\ gLast' = [gLast EXCEPT !.n = @ + 1]
    /\ UNCHANGED <<gGame, rotation, gAlts, gResults, fnVars, wbVars>>

\* setTimeout(() => setCanStop(true), 800)
SlotCanStop(k) ==
    /\ gTimers[k].kind = "slotCanStop"
    /\ gCanStop' = TRUE
    /\ gTimers' = RemoveAt(gTimers, k)
    /\ UNCHANGED <<gGame, rotation, gAlts, gBusy, gResults, gLast, fnVars, wbVars>>

\* the auto-stop calls the stopReel that pullLever closed over, whose
\* isSpinning is the false of the render before the pull: it returns at once
SlotAutoStop(k) ==
    /\ gTimers[k].kind = "slotAutoStop"
    /\ gTimers' = RemoveAt(gTimers, k)
    /\ UNCHANGED <<gGame, rotation, gAlts, gBusy, gCanStop, gResults, gLast, fnVars, wbVars>>

\* the STOP button (shown while isSpinning, enabled by canStop): stopReel
\* clears the auto-stop, draws the winner and starts the slowdown
SlotStopReel ==
    /\ gGame = "slots"
    /\ gBusy
    /\ gCanStop
    /\ \E r \in GameUnits :
         LET winningToken == getWinningToken(gAlts, r)
         IN  /\ gTimers' = Append(RemoveKind(gTimers, "slotAutoStop"),
                                  Timer("slotSlowdown", winningToken, <<>>))
             /\ gLast' = [gLast EXCEPT !.game = "slots", !.r = r,
                                       !.winner = winningToken, !.pick = NoPick]
    /\ gCanStop' = FALSE
    /\ UNCHANGED <<gGame, rotation, gAlts, gBusy, gResults, fnVars, wbVars>>

\* the last slowdown() step
SlotSlowdownEnd(k) ==
    /\ gTimers[k].kind = "slotSlowdown"
    /\ gBusy' = FALSE
    /\ gResults' = Append(gResults, gTimers[k].token)
    /\ gTimers' = RemoveAt(gTimers, k)
    /\ UNCHANGED <<gGame, rotation, gAlts, gCanStop, gLast, fnVars, wbVars>>

\* ---- DiceRoll ----
DiceRollTrigger ==
    /\ gGame = "dice"
    /\ gLast.n < MaxTriggers
    /\ ~gBusy
    /\ LET split == DiceSplit(gAlts)
           allItems == DiceAllItems(split.main, split.other)
       IN  /\ Len(DiceFaces(split.main, split.other)) /= 0
           /\ \E r \in GameUnits, u \in GameUnits :
                LET winningToken == DiceSelectWeighted(split.main, split.other, r, u)
                    i == WeightedIndex(Probs(allItems), r)
                IN  /\ gTimers' = Append(gTimers, Timer("diceInterval", winningToken, <<>>))
                    /\ gLast' = [n |-> gLast.n + 1, game |-> "dice", r |-> r,
                                 winner |-> allItems[IF i > 0 THEN i ELSE 1].token,
                                 pick |-> IF i > 0 /\ allItems[i].token = OtherLabel
                                             /\ Len(split.other) > 0
                                          THEN Pick(allItems[i].token, u, split.other, winningToken)
                                          ELSE NoPick]
    /\ gBusy' = TRUE
    /\ UNCHANGED <<gGame, rotation, gAlts, gCanStop, gResults, fnVars, wbVars>>

\* the interval tick that reaches maxRotations
DiceLand(k) ==
    /\ gTimers[k].kind = "diceInterval"
    /\ gBusy' = FALSE
    /\ gTimers' = [gTimers EXCEPT ![k].kind = "diceResult"]
    /\ UNCHANGED <<gGame, rotation, gAlts, gCanStop, gResults, gLast, fnVars, wbVars>>

\* setTimeout(() => onResult(winningToken), 1000)
DiceResult(k) ==
    /\ gTimers[k].kind = "diceResult"
    /\ gResults' = Append(gResults, gTimers[k].token)
    /\ gTimers' = RemoveAt(gTimers, k)
    /\ UNCHANGED <<gGame, rotation, gAlts, gBusy, gCanStop, gLast, fnVars, wbVars>>

\* ---- LotteryBalls ----
LotteryMix ==
    /\ gGame = "lottery"
    /\ gLast.n < MaxTriggers
    /\ ~gBusy
    /\ LET split == LotterySplit(gAlts)
       IN  /\ Len(LotteryBallsOf(split.main, split.other)) /= 0
           /\ gTimers' = Append(gTimers, Timer("lotteryMix", NoToken, split.other))
    /\ gBusy' = TRUE
    /\ gLast' = [gLast EXCEPT !.n = @ + 1]
    /\ UNCHANGED <<gGame, rotation, gAlts, gCanStop, gResults, fnVars, wbVars>>

\* the 3000 ms callback: selectWeighted() runs here
LotterySelect(k) ==
    /\ gTimers[k].kind = "lotteryMix"
    /\ LET split == LotterySplit(gAlts)
           balls == LotteryBallsOf(split.main, split.other)
       IN  \E r \in GameUnits, u \in GameUnits :
             LET picked == LotterySelectWeighted(balls, split.other, r, u)
             IN  /\ gTimers' = [gTimers EXCEPT
                                  ![k] = Timer("lotteryResult", picked.token, <<>>)]
                 /\ gLast' = [gLast EXCEPT !.game = "lottery", !.r = r,
                                           !.winner = balls[picked.ball].token,
                                           !.pick = IF balls[picked.ball].isOther
                                                       /\ picked.token /= OtherLabel
                                                    THEN Pick(balls[picked.ball].token, u, split.other, picked.token)
                                                    ELSE NoPick]
    /\ gBusy' = FALSE
    /\ UNCHANGED <<gGame, rotation, gAlts, gCanStop, gResults, fnVars, wbVars>>

\* setTimeout(() => onResult(token), 1200)
LotteryResult(k) ==
    /\ gTimers[k].kind = "lotteryResult"
    /\ gResults' = Append(gResults, gTimers[k].token)
    /\ gTimers' = RemoveAt(gTimers, k)
    /\ UNCHANGED <<gGame, rotation, gAlts, gBusy, gCanStop, gLast, fnVars, wbVars>>

GameNext ==
    \/ PlinkoDrop
    \/ \E k \in 1..Len(gTimers) : PlinkoLand(k)
    \/ \E k \in 1..Len(gTimers) : OtherCycle(k)
    \/ WheelSpin
    \/ \E k \in 1..Len(gTimers) : WheelStop(k)
    \/ SlotPullLever
    \/ \E k \in 1..Len(gTimers) : SlotCanStop(k)
    \/ \E k \in 1..Len(gTimers) : SlotAutoStop(k)
    \/ SlotStopReel
    \/ \E k \in 1..Len(gTimers) : SlotSlowdownEnd(k)
    \/ DiceRollTrigger
    \/ \E k \in 1..Len(gTimers) : DiceLand(k)
    \/ \E k \in 1..Len(gTimers) : DiceResult(k)
    \/ LotteryMix
    \/ \E k \in 1..Len(gTimers) : LotterySelect(k)
    \/ \E k \in 1..Len(gTimers) : LotteryResult(k)

SpecGame == GameInit /\ [][GameNext]_vars

\* the callbacks setTimeout and setInterval have scheduled; the event loop
\* runs each of them, while nothing makes the user click or press
GameTimerStep ==
    \E k \in 1..Len(gTimers) :
        \/ PlinkoLand(k) \/ OtherCycle(k) \/ WheelStop(k)
        \/ SlotCanStop(k) \/ SlotAutoStop(k) \/ SlotSlowdownEnd(k)
        \/ DiceLand(k) \/ DiceResult(k)
        \/ LotterySelect(k) \/ LotteryResult(k)

SpecGameFair == SpecGame /\ WF_vars(GameTimerStep)

(***************************************************************************)
(* The WordBuilder session (SpecWb).  debugLogs, floatingWord, showDebug,  *)
(* showSettings, otherExpanded and the model name are display state and    *)
(* are not kept.                                                           *)
(***************************************************************************)
\* requests a behaviour issues
MaxRequests == 3
\* longest sentence a behaviour builds
MaxSentence == 2

\* useState("The future of AI is")
DefaultSeed ==
    <<"T", "h", "e", " ", "f", "u", "t", "u", "r", "e", " ", "o", "f", " ",
      "A", "I", " ", "i", "s">>
\* seeds the user types into the seed field
SeedTexts == {DefaultSeed, <<"H", "i", ".">>}

\* alternative lists a successful response carries (data.alternatives || [])
ResponseLists ==
    {<<>>,
     <<Token(TokSpMat, 0, <<1, 1>>, FALSE)>>,
     <<Token(TokCat, 0, <<1, 2>>, FALSE), Token(TokSpMat, 1, <<1, 2>>, FALSE)>>}

\* newSentence.join('')
RECURSIVE Join(_)
Join(sentence) ==
    Bind(sentence, LAMBDA v : IF v = <<>> THEN <<>> ELSE Head(v) \o Join(Tail(v)))

\* /[.!?;:"')\]}>]$/
IsSentenceEnd(c) == c \in {".", "!", "?", ";", ":", "\"", "'", ")", "]", "}", ">"}

\* normalizedPrefix of fetchNextToken
NormalizedPrefix(prefix) ==
    Bind(Trim(prefix), LAMBDA trimmed :
        IF trimmed /= <<>> /\ IsSentenceEnd(trimmed[Len(trimmed)])
        THEN TrimEnd(prefix) \o <<" ">>
        ELSE prefix)

\* token.startsWith(' ') ? token : ' ' + token
SpacedToken(token) == IF StartsWithSpace(token) THEN token ELSE <<" ">> \o token

\* fetchNextToken(prefix) up to its await: the request leaves
FetchNextToken(prefix) ==
    /\ isLoading' = TRUE
    /\ error' = NoError
    /\ requests' = requests \cup {Len(issued) + 1}
    /\ issued' = Append(issued, [prefix |-> NormalizedPrefix(prefix), status |-> "pending"])

WbInit ==
    /\ seedInput = DefaultSeed
    /\ builtSentence = <<>>
    /\ alternatives = <<>>
    /\ isLoading = TRUE
    /\ error = NoError
    /\ requests = {1}
    /\ wbTimers = <<>>
    /\ issued = <<[prefix |-> NormalizedPrefix(DefaultSeed), status |-> "pending"]>>
    /\ appliedFrom = 0
    /\ selections = NoSelections
    /\ FnIdle
    /\ GameIdle

\* the chips of the word grid: main tokens and the expanded other tokens
WordGrid ==
    IF isLoading THEN <<>>
    ELSE Bind(WordBuilderSplit(alternatives, DefaultMaxTokens),
              LAMBDA split : split.mainTokens \o split.otherTokens)

\* a game is mounted
GameMounted == ~isLoading /\ error = NoError /\ Len(alternatives) > 0

\* handleWordSelected(alt.token) from a word chip
HandleWordSelectedManual ==
    /\ Len(issued) < MaxRequests
    /\ Len(builtSentence) < MaxSentence
    /\ \E chips \in {WordGrid} : \E i \in 1..Len(chips) :
         LET newSentence == Append(builtSentence, SpacedToken(chips[i].token))
         IN  /\ builtSentence' = newSentence
             /\ FetchNextToken(seedInput \o Join(newSentence))
             /\ selections' = Accept(selections, SpacedToken(chips[i].token))
    /\ UNCHANGED <<seedInput, alternatives, wbTimers, appliedFrom, fnVars, gameVars>>

\* onResult of the mounted game: handleWordSelected(token, true) starts the
\* 800 ms timer, whose callback closes over this render's builtSentence and
\* seedInput; issuedBefore is history: the requests issued up to this call
HandleWordSelectedFromGame ==
    /\ GameMounted
    /\ Len(wbTimers) < MaxSentence
    /\ \E i \in 1..Len(alternatives) :
         /\ wbTimers' = Append(wbTimers, [spacedToken |-> SpacedToken(alternatives[i].token),
                                          builtSentence |-> builtSentence,
                                          seedInput |-> seedInput,
                                          issuedBefore |-> Len(issued)])
         /\ selections' = Accept(selections, SpacedToken(alternatives[i].token))
    /\ UNCHANGED <<seedInput, builtSentence, alternatives, isLoading, error, requests,
                   issued, appliedFrom, fnVars, gameVars>>

\* the 800 ms callback
FloatingWordTimer(k) ==
    /\ Len(issued) < MaxRequests
    /\ LET newSentence == Append(wbTimers[k].builtSentence, wbTimers[k].spacedToken)
       IN  /\ builtSentence' = newSentence
           /\ FetchNextToken(wbTimers[k].seedInput \o Join(newSentence))
    /\ wbTimers' = RemoveAt(wbTimers, k)
    /\ UNCHANGED <<seedInput, alternatives, appliedFrom, selections, fnVars, gameVars>>

HandleReset ==
    /\ Len(issued) < MaxRequests
    /\ builtSentence' = <<>>
    /\ alternatives' = <<>>
    /\ appliedFrom' = 0
    /\ FetchNextToken(seedInput)
    /\ selections' = Disturb(selections, TRUE)
    /\ UNCHANGED <<seedInput, wbTimers, fnVars, gameVars>>

HandleUndo ==
    /\ Len(issued) < MaxRequests
    /\ Len(builtSentence) /= 0
    /\ LET newSentence == SubSeq(builtSentence, 1, Len(builtSentence) - 1)
       IN  /\ builtSentence' = newSentence
           /\ FetchNextToken(seedInput \o Join(newSentence))
    /\ selections' = Disturb(selections, FALSE)
    /\ UNCHANGED <<seedInput, alternatives, wbTimers, appliedFrom, fnVars, gameVars>>

\* the seed form's onSubmit and the seed field's onBlur
SeedSubmit ==
    /\ Len(issued) < MaxRequests
    /\ \E typed \in SeedTexts :
         LET value == Trim(typed)
         IN  /\ value /= <<>>
             /\ value /= seedInput
             /\ seedInput' = value
             /\ builtSentence' = <<>>
             /\ FetchNextToken(value)
    /\ selections' = Disturb(selections, FALSE)
    /\ UNCHANGED <<alternatives, wbTimers, appliedFrom, fnVars, gameVars>>

\* a response with response.ok: setAlternatives(alts), then finally
ResponseOk(id) ==
    /\ id \in requests
    /\ \E alts \in ResponseLists : alternatives' = alts
    /\ appliedFrom' = id
    /\ isLoading' = FALSE
    /\ requests' = requests \ {id}
    /\ issued' = [issued EXCEPT ![id].status = "ok"]
    /\ UNCHANGED <<seedInput, builtSentence, error, wbTimers, selections, fnVars,
                   gameVars>>

\* a failed fetch or a response that is not ok: catch, then finally
ResponseFail(id) ==
    /\ id \in requests
    /\ error' = FetchError
    /\ isLoading' = FALSE
    /\ requests' = requests \ {id}
    /\ issued' = [issued EXCEPT ![id].status = "failed"]
    /\ UNCHANGED <<seedInput, builtSentence, alternatives, wbTimers, appliedFrom,
                   selections, fnVars, gameVars>>

WbNext ==
    \/ HandleWordSelectedManual
    \/ HandleWordSelectedFromGame
    \/ \E k \in 1..Len(wbTimers) : FloatingWordTimer(k)
    \/ HandleReset
    \/ HandleUndo
    \/ SeedSubmit
    \/ \E id \in requests : ResponseOk(id)
    \/ \E id \in requests : ResponseFail(id)

SpecWb == WbInit /\ [][WbNext]_vars

(***************************************************************************)
(* Properties of the functions (SpecFn)                                    *)
(***************************************************************************)
MainOutcomes(outcomes) == LET M(o) == ~o.isOther IN SelectSeq(outcomes, M)
OtherOutcomes(outcomes) == LET O(o) == o.isOther IN SelectSeq(outcomes, O)
\* the probability of the other bucket, 0 when there is none
OtherBucketProb(outcomes) == SumProb(OtherOutcomes(outcomes))
SplitOps == {"wordbuilder", "plinko", "wheel", "dice", "lottery"}

\* every log-probability of the candidate list is a finite number
FiniteCandidates ==
    \A i \in 1..Len(fnIn.candidates) :
        IsFiniteNumber(fnIn.candidates[i].logProbability.ln)

\* C1: for a non-empty candidate list with finite log-probabilities
\* logprobsToProbs returns one probability per candidate, each the softmax
\* value exp(lp_i - max) / sum_j exp(lp_j - max) (which is
\* exp(lp_i) / sum_j exp(lp_j), the shift by max cancelling), and the
\* probabilities sum to 1.
C1_SoftmaxSumsToOne ==
    (fnOut.op = "normalize" /\ fnIn.candidates /= <<>> /\ FiniteCandidates) =>
        LET cands == fnIn.candidates
            exps == [j \in 1..Len(cands) |-> MathExp(cands[j].logProbability)]
        IN  /\ Len(fnOut.tokens) = Len(cands)
            /\ \A i \in 1..Len(cands) :
                  RMul(fnOut.tokens[i].probability, RSum(exps)) = exps[i]
            /\ SumProb(fnOut.tokens) = One

C1_Witness ==
    /\ fnOut.op = "normalize"
    /\ Len(fnOut.tokens) >= 2
    /\ fnOut.tokens[1].probability /= fnOut.tokens[2].probability

\* the 1-based positions whose inclusive cumulative probability exceeds
\* r * total
ExceedingPositions(probs, r) ==
    {i \in 1..Len(probs) : RLt(RMul(r, RSum(probs)), RSum(SubSeq(probs, 1, i)))}

Least(S) == CHOOSE i \in S : \A j \in S : i <= j

\* every probability handed to selectWeighted is a finite number
FiniteSelectProbs ==
    \A k \in 1..Len(fnIn.alternatives) : IsFiniteNumber(fnIn.alternatives[k].prob)

\* C2: weighted selection over a non-empty list with random unit r returns the
\* first outcome, in list order, whose inclusive cumulative probability
\* exceeds r * total.
C2_SelectsFirstExceeding ==
    (fnOut.op = "select" /\ fnIn.alternatives /= <<>> /\ FiniteSelectProbs) =>
        LET probs == [k \in 1..Len(fnIn.alternatives) |-> fnIn.alternatives[k].prob]
            S == ExceedingPositions(probs, fnIn.r)
        IN  S /= {} => fnOut.token = fnIn.alternatives[Least(S)].token

\* C3: the threshold split loses no probability mass: the main outcomes'
\* probabilities plus the other bucket's (0 if there is none) sum to the
\* probabilities of the outcomes that entered the split, in WordBuilder,
\* Plinko, SpinWheel, DiceRoll and LotteryBalls.
C3_SplitConservesMass ==
    fnOut.op \in SplitOps =>
        /\ RAdd(SumProb(MainOutcomes(fnOut.outcomes)), OtherBucketProb(fnOut.outcomes))
              = SumProb(fnOut.entered)
        /\ Len(OtherOutcomes(fnOut.outcomes)) <= 1
        /\ Probs(MainOutcomes(fnOut.outcomes)) = Probs(fnOut.main)
              \/ fnOut.op = "plinko"

C3_Witness ==
    /\ fnOut.op = "plinko"
    /\ MainOutcomes(fnOut.outcomes) /= <<>>
    /\ OtherOutcomes(fnOut.outcomes) /= <<>>
    /\ fnOut.pool /= <<>>

\* the unseen-vocabulary gap: 1 minus the sum of the returned candidates'
\* probabilities
VocabularyGap(tokens) == RMax(Zero, RSub(One, SumProb(tokens)))

\* C4: the displayed other bucket's probability is the sub-threshold
\* candidates' sum plus the unseen-vocabulary gap.
C4_OtherIncludesGap ==
    (fnOut.op = "plinko" /\ (fnOut.pool /= <<>> \/ RLt(Zero, VocabularyGap(fnIn.tokens)))) =>
        OtherBucketProb(fnOut.outcomes)
            = RAdd(SumProb(fnOut.pool), VocabularyGap(fnIn.tokens))

\* C5: merging by display key conserves probability mass and leaves no two
\* merged entries with the same display key.
C5_MergeConservesMass ==
    fnOut.op = "merge" =>
        /\ SumProb(fnOut.merged) = SumProb(fnIn.tokens)
        /\ \A i, j \in 1..Len(fnOut.merged) :
              i /= j => DisplayKey(fnOut.merged[i].token) /= DisplayKey(fnOut.merged[j].token)

C5_Witness ==
    /\ fnOut.op = "merge"
    /\ Len(fnOut.merged) >= 2
    /\ Len(fnOut.merged) < Len(fnIn.tokens)

GameOutcomes(game, alts) ==
    LET Shown(s) == [i \in 1..Len(s) |-> [token |-> s[i].token, prob |-> s[i].probability]]
    IN  CASE game = "plinko" -> Shown(PlinkoBins(alts))
          [] game = "wheel" -> Shown(WheelWedges(alts))
          [] game = "slots" -> Shown(SlotDisplayAlternatives(alts))
          [] game = "dice" -> Bind(DiceSplit(alts), LAMBDA split :
                                  Shown(DiceAllItems(split.main, split.other)))
          [] game = "lottery" -> Bind(LotterySplit(alts), LAMBDA split :
                                     Shown(LotteryBallsOf(split.main, split.other)))
          [] OTHER -> <<>>

\* C7: every game picks, for the draw it made, the outcome that selectWeighted
\* of llm.ts picks for the same draw over the outcomes the game displays
C7_GamesUseCanonicalSelection ==
    gLast.game /= "none" =>
        gLast.winner = selectWeighted(GameOutcomes(gLast.game, gAlts), gLast.r)

\* the callbacks that lead to onResult
ResultTimers ==
    {"plinkoAnimate", "otherCycle", "wheelStop", "slotSlowdown", "diceInterval",
     "diceResult", "lotteryMix", "lotteryResult"}

\* C10: from the moment a trigger is accepted until onResult, the token that
\* will be reported is already held by the pending callback: no draw is left
\* to make
C10_TokenFixedAtTrigger ==
    /\ \A k \in 1..Len(gTimers) :
         gTimers[k].kind \in ResultTimers => gTimers[k].token /= NoToken
    /\ (gGame = "slots" /\ gBusy) =>
         \E k \in 1..Len(gTimers) : gTimers[k].kind = "slotSlowdown"

(***************************************************************************)
(* Properties of the session (SpecWb)                                      *)
(***************************************************************************)
\* C8: once every response has arrived and the most recently issued request
\* succeeded, the alternatives held are the ones that request returned
C8_StaleResponseDiscarded ==
    (requests = {} /\ issued[Len(issued)].status = "ok") => appliedFrom = Len(issued)

\* C9: at most one next-token request is outstanding at any time
C9_OneOutstandingRequest == Cardinality(requests) <= 1

\* C11: after a next-token request fails WordBuilder offers nothing to select:
\* right after the failure no game is mounted and the word grid has no chip,
\* so alternatives fetched for an earlier prefix cannot be picked.
C11_FailureLeavesNoOutcomeSet ==
    [][\A id \in requests :
         ResponseFail(id) => (WordGrid' = <<>> /\ ~GameMounted')]_vars

\* C12: with no reset, undo or seed change so far, once every floating-word
\* timer has run the appended-token list is the list of accepted selections,
\* in acceptance order (so its length is their number).
C12_OneTokenPerAcceptedSelection ==
    (selections.undisturbed /\ wbTimers = <<>>) =>
        builtSentence = selections.tokens

\* C13: after handleReset the appended-token list is empty until a selection
\* is accepted after the reset.
C13_ResetStaysEmpty ==
    selections.afterReset => builtSentence = <<>>

\* C14: when a candidate's log-probability is NaN or +Infinity,
\* logprobsToProbs fails with InvalidDistribution and returns no
\* distribution: no token comes back, so none with a NaN probability.
C14_NonFiniteInputRejected ==
    (fnOut.op = "normalize" /\ ~FiniteCandidates) =>
        /\ fnOut.thrown = "InvalidDistribution"
        /\ \A i \in 1..Len(fnOut.tokens) : IsFiniteNumber(fnOut.tokens[i].probability)

\* C15: selectWeighted called with an empty outcome list fails with
\* EmptyDistribution and returns no value.
C15_EmptySelectionFails ==
    (fnOut.op = "select" /\ fnIn.alternatives = <<>>) =>
        fnOut.thrown = "EmptyDistribution"

\* C17: over a non-empty list with a positive probability, selectWeighted
\* returns, for every random unit including 0, an outcome whose probability
\* is greater than 0; and no Plinko bin the position lookup can return has
\* zero width.
C17_ZeroProbabilityNeverSelected ==
    /\ (/\ fnOut.op = "select"
        /\ FiniteSelectProbs
        /\ \E k \in 1..Len(fnIn.alternatives) : RLt(Zero, fnIn.alternatives[k].prob))
          => \A k \in 1..Len(fnIn.alternatives) :
                fnOut.token = fnIn.alternatives[k].token
                    => RLt(Zero, fnIn.alternatives[k].prob)
    /\ fnOut.op = "plinko"
          => \A i \in 1..Len(fnOut.outcomes) : RLt(Zero, fnOut.outcomes[i].widthPercent)

\* C18: when the subtract loop of selectWeighted runs through a non-empty
\* list without returning, the winner is the last outcome of the list.
C18_FallbackIsLastOutcome ==
    (/\ fnOut.op = "select"
     /\ fnIn.alternatives /= <<>>
     /\ WeightedIndex([k \in 1..Len(fnIn.alternatives) |-> fnIn.alternatives[k].prob],
                      fnIn.r) = 0)
        => fnOut.token = fnIn.alternatives[Len(fnIn.alternatives)].token

\* C16: for an empty candidate list logprobsToProbs returns the empty list
\* and getNextToken returns no alternative that could be selected.
C16_EmptyCandidatesGiveNoAlternative ==
    (fnOut.op = "getNextToken" /\ fnIn.candidates = <<>>) =>
        /\ logprobsToProbs(fnIn.candidates) = <<>>
        /\ fnOut.alternatives = <<>>

\* C19: in every implementation of the threshold split an outcome is in the
\* main list exactly when its probability is at least 0.03: all main
\* outcomes are at or above the threshold, all outcomes of the other pool
\* are below it.
C19_ThresholdDecidesTheSplit ==
    fnOut.op \in SplitOps =>
        /\ \A i \in 1..Len(fnOut.main) :
              RLe(MIN_PROBABILITY_THRESHOLD, fnOut.main[i].probability)
        /\ \A i \in 1..Len(fnOut.pool) :
              RLt(fnOut.pool[i].probability, MIN_PROBABILITY_THRESHOLD)

\* the minOtherProbability of the split contract
minOtherProbability == <<1, 100>>

\* C20: a split shows a synthetic other bucket only when the other pool is
\* not empty and sums to at least 0.01; when the pool sums to less there is
\* no other bucket and every outcome of the pool is laid out as a main
\* outcome.
C20_OtherBucketNeedsMinimumMass ==
    fnOut.op \in SplitOps =>
        /\ OtherOutcomes(fnOut.outcomes) /= <<>> =>
              /\ fnOut.pool /= <<>>
              /\ RLe(minOtherProbability, SumProb(fnOut.pool))
        /\ (fnOut.pool /= <<>> /\ RLt(SumProb(fnOut.pool), minOtherProbability)) =>
              /\ OtherOutcomes(fnOut.outcomes) = <<>>
              /\ \A i \in 1..Len(fnOut.pool) :
                    \E j \in 1..Len(fnOut.outcomes) :
                        /\ ~fnOut.outcomes[j].isOther
                        /\ fnOut.outcomes[j].token = fnOut.pool[i].token

\* C21: the bins of Plinko and the wedges of SpinWheel are contiguous in
\* the order built, the other interval comes last, each interval's share of
\* the board (of the circle) equals its outcome's probability, and the last
\* interval ends at the sum of the probabilities.
C21_LayoutMatchesProbabilities ==
    /\ fnOut.op = "plinko" =>
          LET b == fnOut.outcomes
          IN  /\ \A i \in 1..Len(b) :
                    /\ b[i].startPercent =
                          IF i = 1 THEN Zero
                          ELSE RAdd(b[i - 1].startPercent, b[i - 1].widthPercent)
                    /\ b[i].isOther => i = Len(b)
                    /\ b[i].widthPercent = RMul(b[i].probability, <<100, 1>>)
              /\ b /= <<>> =>
                    RAdd(b[Len(b)].startPercent, b[Len(b)].widthPercent)
                        = RMul(SumProb(b), <<100, 1>>)
    /\ fnOut.op = "wheel" =>
          LET w == fnOut.outcomes
          IN  /\ \A i \in 1..Len(w) :
                    /\ w[i].startAngle =
                          IF i = 1 THEN <<wheelStartAngle, 1>> ELSE w[i - 1].endAngle
                    /\ w[i].endAngle = RAdd(w[i].startAngle, w[i].angle)
                    /\ w[i].isOther => i = Len(w)
                    /\ w[i].angle = RMul(w[i].probability, <<360, 1>>)
              /\ w /= <<>> =>
                    RSub(w[Len(w)].endAngle, <<wheelStartAngle, 1>>)
                        = RMul(SumProb(w), <<360, 1>>)

\* what addOtherCategory appended to the token list, <<>> when nothing
AddedByAddOther ==
    SubSeq(fnOut.alternatives, Len(fnIn.tokens) + 1, Len(fnOut.alternatives))

Constituents(text) ==
    {i \in 1..Len(fnIn.tokens) : DisplayKey(fnIn.tokens[i].token) = DisplayKey(text)}

\* C23: the text of a merged entry is a variant with a leading space if a
\* constituent has one, and among the equally preferred variants the first
\* in input order; its probability is the sum of its constituents', so
\* " Mat" (0.10) and "mat" (0.05) merge to " Mat" with 0.15.
C23_MergedTextPrefersFirstSpaced ==
    fnOut.op = "merge" =>
        \A k \in 1..Len(fnOut.merged) :
            LET all == Constituents(fnOut.merged[k].token)
                spaced == {i \in all : StartsWithSpace(fnIn.tokens[i].token)}
                preferred == IF spaced /= {} THEN spaced ELSE all
            IN  /\ fnOut.merged[k].token = fnIn.tokens[Least(preferred)].token
                /\ fnOut.merged[k].probability
                      = RSum([i \in 1..Len(fnIn.tokens) |->
                                 IF i \in all THEN fnIn.tokens[i].probability ELSE Zero])

\* the bins of the main tokens, in the order arrangeForCenter gave them
ArrangedBins ==
    LET IsMain(b) == ~b.isOther IN SelectSeq(fnOut.outcomes, IsMain)

\* the 1-based slot of the main token of 0-based rank r among n
SlotOfRank(r, n) ==
    IF r % 2 = 1 THEN (n \div 2 + 1) - (r + 1) \div 2 ELSE (n \div 2 + 1) + r \div 2

\* C24: the bins of the main tokens are a permutation of the main tokens
\* with their probabilities unchanged: the token of rank 0 by descending
\* probability is at index floor(n/2), ranks 1, 3, 5, ... go left and ranks
\* 2, 4, 6, ... right of it, nearest first, so each side is non-increasing
\* away from the centre; arranging the main tokens again gives the same order.
C24_ArrangedAroundTheCentre ==
    fnOut.op = "plinko" =>
        LET main == fnOut.main
            n == Len(main)
            arr == ArrangedBins
            c == n \div 2 + 1
        IN  /\ Len(arr) = n
            /\ \A i, j \in 1..n : i < j => RLe(main[j].probability, main[i].probability)
            /\ \A r \in 0..(n - 1) :
                  /\ SlotOfRank(r, n) \in 1..n
                  /\ arr[SlotOfRank(r, n)].token = main[r + 1].token
                  /\ arr[SlotOfRank(r, n)].probability = main[r + 1].probability
            /\ \A r, q \in 0..(n - 1) : SlotOfRank(r, n) = SlotOfRank(q, n) => r = q
            /\ \A i, j \in 1..n :
                  /\ (i < j /\ j <= c) => RLe(arr[i].probability, arr[j].probability)
                  /\ (c <= i /\ i < j) => RLe(arr[j].probability, arr[i].probability)
            /\ \A k \in 1..n : arrangeForCenter(main)[k].token = arr[k].token

\* five main tokens arranged as 0.1, 0.3, 0.3, 0.2, 0.1
C24_Witness ==
    /\ fnOut.op = "plinko"
    /\ Len(fnOut.main) = 5
    /\ [k \in 1..5 |-> ArrangedBins[k].probability]
         = <<<<1, 10>>, <<3, 10>>, <<3, 10>>, <<1, 5>>, <<1, 10>>>>
    /\ fnIn.tokens[1].probability = <<1, 10>>

\* the pool as the weighted selection takes it, its probabilities as they
\* are and rescaled to sum to 1
PoolWeights(pool, scale) ==
    [k \in 1..Len(pool) |->
        [token |-> pool[k].token,
         prob |-> IF scale THEN RDiv(pool[k].probability, SumProb(pool))
                  ELSE pool[k].probability]]

\* C25: a token is picked from the held-out pool only when the winner of
\* the draw is the other bucket, and the pick is the member of that pool
\* the weighted selection returns for the same random value, over the
\* pool's probabilities as they are or rescaled to sum to 1.
C25_OtherResolvedByWeightedSelection ==
    gLast.pick /= NoPick =>
        /\ gLast.pick.winner = OtherLabel
        /\ \E k \in 1..Len(gLast.pick.pool) : gLast.pick.pool[k].token = gLast.pick.token
        /\ \/ gLast.pick.token = selectWeighted(PoolWeights(gLast.pick.pool, FALSE), gLast.pick.u)
           \/ gLast.pick.token = selectWeighted(PoolWeights(gLast.pick.pool, TRUE), gLast.pick.u)

\* C26: the 800 ms callback appends the token a game reported only if no
\* next-token request was issued since the game reported it, so that the
\* token comes from the outcome set of the prefix that is current.
C26_NoAppendFromSupersededOutcomes ==
    [][\A k \in 1..Len(wbTimers) :
          FloatingWordTimer(k) => wbTimers[k].issuedBefore = Len(issued)]_vars

\* C27: once the lever of the slot machine is pulled, the result of that
\* pull is eventually passed to onResult, whether STOP is pressed or not.
C27_SlotResultEventuallyDelivered ==
    \A n \in 1..MaxTriggers :
        (gGame = "slots" /\ gBusy /\ gLast.n = n) ~> (Len(gResults) >= n)

\* C28: after a spin of the wheel the wedge getWedgeAtPointer finds at the
\* final rotation is the wedge the weighted draw of that spin chose.
C28_PointerRestsOnTheWinner ==
    gLast.game = "wheel" =>
        LET wedges == WheelWedges(gAlts)
        IN  wedges[getWedgeAtPointer(wedges, rotation)].token = gLast.winner

\* C29: a game accepts no trigger while the onResult call of an accepted
\* trigger is still to come: the accepted triggers exceed the onResult
\* calls by at most one, and never fall behind them.
C29_OnePendingSelection ==
    gLast.n - Len(gResults) \in {0, 1}

\* C30: the alternatives getNextToken returns for the candidates of a
\* response have total probability 1, and an entry "<OTHER>" with token_id
\* -1 is among them only when the candidate list is empty.
C30_AlternativesTotalOne ==
    fnOut.op = "getNextToken" =>
        /\ NumSum(Probs(fnOut.alternatives)) = One
        /\ (\E k \in 1..Len(fnOut.alternatives) :
               fnOut.alternatives[k].is_other \/ fnOut.alternatives[k].token_id = -1)
             => fnIn.candidates = <<>>

====
